---------------------------- MODULE Spec2Model ----------------------------
(***************************************************************************)
(* Model of src/app.py (extrator-vales): the OCR voucher pipeline.         *)
(*                                                                         *)
(*   - Python str values are sequences of one-character strings.           *)
(*   - Python's None-or-str results are Option records (NoneV / Some(s)).  *)
(*   - re.search is modelled by a backtracking matcher over a regex syntax *)
(*     tree; it takes the alternatives in the order Python's engine tries  *)
(*     them and stops at the first that succeeds: the match Python reports.*)
(***************************************************************************)
EXTENDS Integers, Sequences, FiniteSets, TLC

(***************************************************************************)
(* Characters and strings                                                  *)
(***************************************************************************)
Digits == {"0", "1", "2", "3", "4", "5", "6", "7", "8", "9"}

\* \s of Python's re (the whitespace characters of the model's alphabet)
Ws == {" ", "\n", "\t"}

UpperSeq == <<"A", "B", "C", "D", "E", "F", "G", "H", "I", "J", "K", "L", "M",
              "N", "O", "P", "Q", "R", "S", "T", "U", "V", "W", "X", "Y", "Z",
              "À", "Ã", "É", "Ç">>

LowerSeq == <<"a", "b", "c", "d", "e", "f", "g", "h", "i", "j", "k", "l", "m",
              "n", "o", "p", "q", "r", "s", "t", "u", "v", "w", "x", "y", "z",
              "à", "ã", "é", "ç">>

\* A-Z and a-z
AsciiUpper == {UpperSeq[i] : i \in 1..26}

AsciiLower == {LowerSeq[i] : i \in 1..26}

\* the characters of the range À-ÿ that the model's alphabet holds
Accented == {UpperSeq[i] : i \in 27..30} \cup {LowerSeq[i] : i \in 27..30}

\* str.lower() and str.upper() on one character
Lower(c) ==
    IF \E i \in 1..Len(UpperSeq) : UpperSeq[i] = c
    THEN LowerSeq[CHOOSE i \in 1..Len(UpperSeq) : UpperSeq[i] = c]
    ELSE c

Upper(c) ==
    IF \E i \in 1..Len(LowerSeq) : LowerSeq[i] = c
    THEN UpperSeq[CHOOSE i \in 1..Len(LowerSeq) : LowerSeq[i] = c]
    ELSE c

Min(a, b) == IF a <= b THEN a ELSE b

\* s[:n]
Prefix(s, n) == SubSeq(s, 1, Min(n, Len(s)))

\* Python's None, and a str value
NoneV == [isNone |-> TRUE, val |-> <<>>]

Some(s) == [isNone |-> FALSE, val |-> s]

\* bool(x) of a None-or-str value
Truthy(o) == ~o.isNone /\ o.val # <<>>

(***************************************************************************)
(* Regular expressions: syntax tree                                        *)
(***************************************************************************)
\* one character out of the set cs
Set(cs) == [t |-> "set", cs |-> cs]

\* r1 r2 ... rn
Cat(rs) == [t |-> "cat", rs |-> rs]

\* r1|r2|...|rn
Alt(rs) == [t |-> "alt", rs |-> rs]

\* r{min,max}; max = -1 is unbounded; lazy is the trailing ?.  Every quantifier
\* of the source's patterns applies to one character or character class, so r
\* is always a Set
Rep(r, min, max, lazy) == [t |-> "rep", r |-> r, min |-> min, max |-> max, lazy |-> lazy]

\* (r), the capturing group 1
Grp(r) == [t |-> "grp", r |-> r]

\* (?=r)
Look(r) == [t |-> "look", r |-> r]

\* $ (without re.MULTILINE)
Eos == [t |-> "eos"]

\* a literal string
Lit(s) == Cat([i \in 1..Len(s) |-> Set({s[i]})])

Star(r) == Rep(r, 0, -1, FALSE)

Plus(r) == Rep(r, 1, -1, FALSE)

Opt(r) == Rep(r, 0, 1, FALSE)

\* re.IGNORECASE: every character set is closed under case
RECURSIVE IgnoreCase(_)
IgnoreCase(re) ==
    CASE re.t = "set" ->
           Set(re.cs \cup {Lower(c) : c \in re.cs} \cup {Upper(c) : c \in re.cs})
      [] re.t \in {"cat", "alt"} ->
           [t |-> re.t, rs |-> [i \in 1..Len(re.rs) |-> IgnoreCase(re.rs[i])]]
      [] re.t = "rep" -> Rep(IgnoreCase(re.r), re.min, re.max, re.lazy)
      [] re.t = "grp" -> Grp(IgnoreCase(re.r))
      [] re.t = "look" -> Look(IgnoreCase(re.r))
      [] OTHER -> re

(***************************************************************************)
(* Regular expressions: the backtracking matcher                           *)
(*                                                                         *)
(* A matcher state is [pos, gs, ge]: the next position to read and the     *)
(* span of group 1 (gs = 0: not set).  Run(k, s, st) matches the sequence  *)
(* of expressions k (what is left of the pattern) from st and gives the    *)
(* final state of the first alternative that succeeds, trying them in the  *)
(* order of Python's engine, or Fail.                                      *)
(***************************************************************************)
Fail == [pos |-> 0, gs |-> 0, ge |-> 0]

\* the end of group 1, which started at position start
EndGrp(start) == [t |-> "endgrp", start |-> start]

\* the number of consecutive characters of s, from position p on, that are in cs
RunLength(cs, s, p) ==
    CHOOSE n \in 0..(Len(s) + 1 - p) :
        /\ (p + n <= Len(s) => s[p + n] \notin cs)
        /\ \A j \in 0..(n - 1) : s[p + j] \in cs

RECURSIVE Run(_, _, _), TryAlt(_, _, _, _), TryCounts(_, _, _, _, _, _)

\* the alternatives rs of r1|r2|.., in order, each followed by rest
TryAlt(rs, rest, s, st) ==
    IF rs = <<>> THEN Fail
    ELSE LET r == Run(<<Head(rs)>> \o rest, s, st)
         IN  IF r # Fail THEN r ELSE TryAlt(Tail(rs), rest, s, st)

\* a quantifier that takes c characters, then c + step, .., then last, each
\* followed by rest
TryCounts(c, last, step, rest, s, st) ==
    LET r == Run(rest, s, [st EXCEPT !.pos = st.pos + c])
    IN  IF r # Fail THEN r
        ELSE IF c = last THEN Fail
        ELSE TryCounts(c + step, last, step, rest, s, st)

Run(k, s, st) ==
    IF k = <<>> THEN st
    ELSE LET re == Head(k)
             rest == Tail(k)
         IN  CASE re.t = "set" ->
                    IF st.pos <= Len(s) /\ s[st.pos] \in re.cs
                    THEN Run(rest, s, [st EXCEPT !.pos = st.pos + 1])
                    ELSE Fail
               [] re.t = "cat" -> Run(re.rs \o rest, s, st)
               [] re.t = "alt" -> TryAlt(re.rs, rest, s, st)
               [] re.t = "rep" ->
                    \* n: how many characters of the set follow, up to max; a greedy
                    \* quantifier tries n, n-1, .., min and a lazy one min, .., n
                    LET run == RunLength(re.r.cs, s, st.pos)
                        n   == IF re.max >= 0 THEN Min(run, re.max) ELSE run
                    IN  IF n < re.min THEN Fail
                        ELSE IF re.lazy THEN TryCounts(re.min, n, 1, rest, s, st)
                        ELSE TryCounts(n, re.min, -1, rest, s, st)
               [] re.t = "grp" -> Run(<<re.r, EndGrp(st.pos)>> \o rest, s, st)
               [] re.t = "endgrp" ->
                    Run(rest, s, [st EXCEPT !.gs = re.start, !.ge = st.pos])
               [] re.t = "look" ->
                    IF Run(<<re.r>>, s, st) # Fail THEN Run(rest, s, st) ELSE Fail
               [] re.t = "eos" ->
                    IF st.pos = Len(s) + 1 \/ (st.pos = Len(s) /\ s[Len(s)] = "\n")
                    THEN Run(rest, s, st)
                    ELSE Fail

\* re.match(re, s[i:]): the final state of the match of re at position i, or Fail
MatchAt(re, s, i) == Run(<<re>>, s, [pos |-> i, gs |-> 0, ge |-> 0])

\* whether re matches the empty string, and the characters a non-empty match
\* of re can start with
RECURSIVE Nullable(_), First(_), FirstCat(_)

Nullable(re) ==
    CASE re.t = "set" -> FALSE
      [] re.t = "cat" -> \A i \in 1..Len(re.rs) : Nullable(re.rs[i])
      [] re.t = "alt" -> \E i \in 1..Len(re.rs) : Nullable(re.rs[i])
      [] re.t = "rep" -> re.min = 0
      [] re.t = "grp" -> Nullable(re.r)
      [] OTHER -> TRUE

FirstCat(rs) ==
    IF rs = <<>> THEN {}
    ELSE First(Head(rs)) \cup (IF Nullable(Head(rs)) THEN FirstCat(Tail(rs)) ELSE {})

First(re) ==
    CASE re.t = "set" -> re.cs
      [] re.t = "cat" -> FirstCat(re.rs)
      [] re.t = "alt" -> UNION {First(re.rs[i]) : i \in 1..Len(re.rs)}
      [] re.t = "rep" -> re.r.cs
      [] re.t = "grp" -> First(re.r)
      [] OTHER -> {}

\* the matches of re in s, as pairs <<start, final state>>.  A position whose
\* character cannot start a match is skipped without running the matcher.
AllMatches(re, s) ==
    LET first == First(re)
        nullable == Nullable(re)
        tries == {<<i, MatchAt(re, s, i)>> :
                     i \in {j \in 1..(Len(s) + 1) :
                               nullable \/ (j <= Len(s) /\ s[j] \in first)}}
    IN  {m \in tries : m[2] # Fail}

\* re.search(re, s): whether a match was found, and its group(1).  The engine
\* reports the match at the leftmost start.
NoMatch == [found |-> FALSE, start |-> 0, g1 |-> <<>>]

Search(re, s) ==
    LET ms == AllMatches(re, s)
    IN  IF ms = {} THEN NoMatch
        ELSE LET m == CHOOSE m \in ms : \A o \in ms : m[1] <= o[1]
             IN  [found |-> TRUE, start |-> m[1], g1 |-> SubSeq(s, m[2].gs, m[2].ge - 1)]

(***************************************************************************)
(* Field extraction (extract_vale_number, extract_supplier,                *)
(* extract_due_date)                                                       *)
(***************************************************************************)
\* \d{5,}
Digits5 == Rep(Set(Digits), 5, -1, FALSE)

\* the voucher patterns, in the order of the list padroes; all are used with
\* re.IGNORECASE
ValePadroes ==
    << \* Vale\s*[\.:ºNº°\-\s]*\s*(\d{5,})
       IgnoreCase(Cat(<<Lit(<<"V", "a", "l", "e">>), Star(Set(Ws)),
                        Star(Set({".", ":", "º", "N", "°", "-"} \cup Ws)),
                        Star(Set(Ws)), Grp(Digits5)>>)),
       \* V\.?\s*[\.:º°\-\s]*\s*(\d{5,})
       IgnoreCase(Cat(<<Lit(<<"V">>), Opt(Set({"."})), Star(Set(Ws)),
                        Star(Set({".", ":", "º", "°", "-"} \cup Ws)),
                        Star(Set(Ws)), Grp(Digits5)>>)),
       \* N[º°]\s*[:\.\-\s]*\s*(\d{5,})
       IgnoreCase(Cat(<<Lit(<<"N">>), Set({"º", "°"}), Star(Set(Ws)),
                        Star(Set({":", ".", "-"} \cup Ws)),
                        Star(Set(Ws)), Grp(Digits5)>>)),
       \* VALE\s*(\d{5,})
       IgnoreCase(Cat(<<Lit(<<"V", "A", "L", "E">>), Star(Set(Ws)), Grp(Digits5)>>)) >>

\* re.sub(r'[^\d]', '', numero)
OnlyDigits(numero) == SelectSeq(numero, LAMBDA c : c \in Digits)

\* the loop over padroes from pattern k on: res is the value returned and tried
\* the number of patterns re.search was called with
RECURSIVE ValeLoop(_, _)
ValeLoop(texto, k) ==
    IF k > Len(ValePadroes) THEN [res |-> NoneV, tried |-> k - 1]
    ELSE LET match == Search(ValePadroes[k], texto)
             numero_limpo == OnlyDigits(match.g1)
         IN  IF match.found /\ Len(numero_limpo) >= 5
             THEN [res |-> Some(numero_limpo), tried |-> k]
             ELSE ValeLoop(texto, k + 1)

extract_vale_number_run(texto) ==
    IF texto = <<>> THEN [res |-> NoneV, tried |-> 0] ELSE ValeLoop(texto, 1)

extract_vale_number(texto) == extract_vale_number_run(texto).res

\* [A-Za-zÀ-ÿ0-9\s\.\-&]
NomeChars == AsciiUpper \cup AsciiLower \cup Accented \cup Digits \cup Ws \cup {".", "-", "&"}

\* [\.:;\-]
SepChars == {".", ":", ";", "-"}

\* the supplier patterns, in the order of the list padroes; all are used with
\* re.IGNORECASE.  Group 2 (inside the lookahead) is never read.
SupplierPadroes ==
    << \* Fornecedor\s*[\.:;\-]\s*([A-Za-zÀ-ÿ0-9\s\.\-&]+?)(?=\s*(Vale|Data|Nº|$|\.))
       IgnoreCase(Cat(<<Lit(<<"F", "o", "r", "n", "e", "c", "e", "d", "o", "r">>), Star(Set(Ws)), Set(SepChars), Star(Set(Ws)),
                        Grp(Rep(Set(NomeChars), 1, -1, TRUE)),
                        Look(Cat(<<Star(Set(Ws)),
                                   Alt(<<Lit(<<"V", "a", "l", "e">>), Lit(<<"D", "a", "t", "a">>), Lit(<<"N", "º">>),
                                         Eos, Set({"."})>>)>>))>>)),
       \* FORNECEDOR\s*[\.:;\-]\s*([A-Za-zÀ-ÿ0-9\s\.\-&]+)
       IgnoreCase(Cat(<<Lit(<<"F", "O", "R", "N", "E", "C", "E", "D", "O", "R">>), Star(Set(Ws)), Set(SepChars), Star(Set(Ws)),
                        Grp(Plus(Set(NomeChars)))>>)),
       \* Empresa\s*[\.:;\-]\s*([A-Za-zÀ-ÿ0-9\s\.\-&]+)
       IgnoreCase(Cat(<<Lit(<<"E", "m", "p", "r", "e", "s", "a">>), Star(Set(Ws)), Set(SepChars), Star(Set(Ws)),
                        Grp(Plus(Set(NomeChars)))>>)) >>

\* str.strip()
RECURSIVE LStrip(_)
LStrip(s) == IF s # <<>> /\ Head(s) \in Ws THEN LStrip(Tail(s)) ELSE s

RECURSIVE RStrip(_)
RStrip(s) ==
    IF s # <<>> /\ s[Len(s)] \in Ws THEN RStrip(SubSeq(s, 1, Len(s) - 1)) ELSE s

Strip(s) == RStrip(LStrip(s))

\* \s{2,}|[-\|]
SplitRe == Alt(<<Rep(Set(Ws), 2, -1, FALSE), Set({"-", "|"})>>)

\* re.split(r'\s{2,}|[-\|]', s)[0]: what precedes the leftmost delimiter
SplitFirst(s) ==
    LET match == Search(SplitRe, s)
    IN  IF match.found THEN SubSeq(s, 1, match.start - 1) ELSE s

\* fornecedor after the clean-up of match.group(1)
SupplierClean(g1) == SplitFirst(Strip(g1))

\* the loop returning at the first pattern that matches
SupplierLoopStop(texto, k) ==
    LET ks == {j \in k..Len(SupplierPadroes) : Search(SupplierPadroes[j], texto).found}
        j == CHOOSE j \in ks : \A i \in ks : j <= i
        forn == SupplierClean(Search(SupplierPadroes[j], texto).g1)
    IN  IF ks = {} THEN [res |-> NoneV, tried |-> Len(SupplierPadroes)]
        ELSE [res |-> IF Len(forn) > 3 THEN Some(forn) ELSE NoneV, tried |-> j]

RECURSIVE SupplierLoop(_, _)
SupplierLoop(texto, k) ==
    IF k > Len(SupplierPadroes) THEN [res |-> NoneV, tried |-> k - 1]
    ELSE LET match == Search(SupplierPadroes[k], texto)
             forn == SupplierClean(match.g1)
         IN  IF match.found /\ Len(forn) > 3
             THEN [res |-> Some(forn), tried |-> k]
             ELSE SupplierLoop(texto, k + 1)

extract_supplier_run(texto) ==
    IF texto = <<>> THEN [res |-> NoneV, tried |-> 0] ELSE SupplierLoop(texto, 1)

extract_supplier(texto) == extract_supplier_run(texto).res

\* \d{1,2}/\d{1,2}/\d{4}
DateRe ==
    Cat(<<Rep(Set(Digits), 1, 2, FALSE), Set({"/"}), Rep(Set(Digits), 1, 2, FALSE),
          Set({"/"}), Rep(Set(Digits), 4, 4, FALSE)>>)

\* the fallback patterns tried before padrao_principal
DuePadroesFallbackFirst ==
    << Cat(<<Lit(<<"V", "e", "n", "c", "i", "m", "e", "n", "t", "o">>), Star(Set(Ws)), Set({".", ":"}), Star(Set(Ws)),
             Grp(DateRe)>>),
       Cat(<<Lit(<<"V", "e", "n", "c">>), Opt(Set({"."})), Star(Set(Ws)), Set({".", ":"}),
             Star(Set(Ws)), Grp(DateRe)>>),
       Cat(<<Lit(<<"D", "a", "t", "a">>), Star(Set(Ws)), Set({".", ":"}), Star(Set(Ws)), DateRe,
             Star(Set(Ws)), Set({"a", "A", "à"}), Star(Set(Ws)), Grp(DateRe)>>) >>

\* padrao_principal followed by padroes_fallback; none is used with re.IGNORECASE
DuePadroes ==
    << \* Data\s*[\.:]\s*\d{1,2}/\d{1,2}/\d{4}\s*[aAà]\s*(\d{1,2}/\d{1,2}/\d{4})
       Cat(<<Lit(<<"D", "a", "t", "a">>), Star(Set(Ws)), Set({".", ":"}), Star(Set(Ws)), DateRe,
             Star(Set(Ws)), Set({"a", "A", "à"}), Star(Set(Ws)), Grp(DateRe)>>),
       \* Vencimento\s*[\.:]\s*(\d{1,2}/\d{1,2}/\d{4})
       Cat(<<Lit(<<"V", "e", "n", "c", "i", "m", "e", "n", "t", "o">>), Star(Set(Ws)), Set({".", ":"}), Star(Set(Ws)),
             Grp(DateRe)>>),
       \* Venc\.?\s*[\.:]\s*(\d{1,2}/\d{1,2}/\d{4})
       Cat(<<Lit(<<"V", "e", "n", "c">>), Opt(Set({"."})), Star(Set(Ws)), Set({".", ":"}),
             Star(Set(Ws)), Grp(DateRe)>>) >>

RECURSIVE DueLoop(_, _)
DueLoop(texto, k) ==
    IF k > Len(DuePadroes) THEN [res |-> NoneV, tried |-> k - 1]
    ELSE LET match == Search(DuePadroes[k], texto)
         IN  IF match.found THEN [res |-> Some(match.g1), tried |-> k]
             ELSE DueLoop(texto, k + 1)

extract_due_date_run(texto) ==
    IF texto = <<>> THEN [res |-> NoneV, tried |-> 0] ELSE DueLoop(texto, 1)

extract_due_date(texto) == extract_due_date_run(texto).res

(***************************************************************************)
(* get_drive_file_id                                                       *)
(***************************************************************************)
\* [a-zA-Z0-9_-]
IdChars == AsciiLower \cup AsciiUpper \cup Digits \cup {"_", "-"}

DrivePadroes ==
    << \* /d/([a-zA-Z0-9_-]+)
       Cat(<<Lit(<<"/", "d", "/">>), Grp(Plus(Set(IdChars)))>>),
       \* id=([a-zA-Z0-9_-]+)
       Cat(<<Lit(<<"i", "d", "=">>), Grp(Plus(Set(IdChars)))>>) >>

RECURSIVE DriveLoop(_, _)
DriveLoop(link, k) ==
    IF k > Len(DrivePadroes) THEN NoneV
    ELSE LET match == Search(DrivePadroes[k], link)
         IN  IF match.found THEN Some(match.g1) ELSE DriveLoop(link, k + 1)

get_drive_file_id(link) == DriveLoop(link, 1)

(***************************************************************************)
(* preprocess_image: the shape of the image it returns                     *)
(***************************************************************************)
\* the height above which an image is scaled down, and the height it gets
AlturaLimite == 2000

\* int(w * escala) with escala = 2000 / h.  Python computes the product in
\* floating point; for the heights and widths of this model it equals the
\* exact floor of w * 2000 / h.
NovaLargura(h, w) == (w * AlturaLimite) \div h

\* An image is [h, w].  cv2.resize raises cv2.error when the requested width is
\* 0; the other steps (cvtColor, convertScaleAbs, medianBlur, threshold,
\* Image.fromarray) keep the shape and accept every non-empty image.
preprocess_image(img) ==
    IF img.h > AlturaLimite
    THEN IF NovaLargura(img.h, img.w) = 0
         THEN [raises |-> TRUE, h |-> 0, w |-> 0]
         ELSE [raises |-> FALSE, h |-> AlturaLimite, w |-> NovaLargura(img.h, img.w)]
    ELSE [raises |-> FALSE, h |-> img.h, w |-> img.w]

(***************************************************************************)
(* Records (the dicts appended to resultados)                              *)
(***************************************************************************)
NaoEncontrado == <<"N", "ã", "o", " ", "e", "n", "c", "o", "n", "t", "r", "a", "d", "o">>

ERRO == <<"E", "R", "R", "O">>

ErroPrefixo == <<"E", "r", "r", "o", ":", " ">>

\* str(e)[:50]
ErroCorte == 50

\* x or "Não encontrado"
OrNaoEncontrado(o) == IF Truthy(o) THEN o.val ELSE NaoEncontrado

\* the minimum-digits filter left out
MinDigitsFilterOff(numero, minimo) == numero

\* if numero_vale and len(numero_vale) < minimo_digitos: numero_vale = None
MinDigitsFilter(numero, minimo) ==
    IF Truthy(numero) /\ Len(numero.val) < minimo THEN NoneV ELSE numero

\* the dict appended at the end of the try block
SuccessRecord(dados, numero, forn, venc) ==
    [Arquivo |-> dados.nome, Origem |-> dados.tipo,
     NumeroVale |-> OrNaoEncontrado(numero),
     Fornecedor |-> OrNaoEncontrado(forn),
     Vencimento |-> OrNaoEncontrado(venc)]

\* the except block without the cut of str(e)
ErrorRecordNoCut(dados, msg) ==
    [Arquivo |-> dados.nome, Origem |-> dados.tipo,
     NumeroVale |-> ERRO,
     Fornecedor |-> ErroPrefixo \o msg,
     Vencimento |-> <<>>]

\* the dict appended by the except block; msg is str(e)
ErrorRecord(dados, msg) ==
    [Arquivo |-> dados.nome, Origem |-> dados.tipo,
     NumeroVale |-> ERRO,
     Fornecedor |-> ErroPrefixo \o Prefix(msg, ErroCorte),
     Vencimento |-> <<>>]

(***************************************************************************)
(* Inputs of the model                                                     *)
(***************************************************************************)
\* the longest OCR text is made of MaxTokens fragments
MaxTokens == 3

\* the most files one upload holds
MaxFiles == 3

\* the length of the longest exception message
MaxMsgLen == 51

\* the tallest and the widest image given to preprocess_image alone
MaxAltura == 2004

MaxLargura == 3

\* fragments of OCR text around a voucher number
ValeTokens ==
    << \* Vale 
       <<"V", "a", "l", "e", " ">>,
       \* VALE
       <<"V", "A", "L", "E">>,
       \* V.
       <<"V", ".">>,
       \* nº 
       <<"n", "º", " ">>,
       \* N° 12345 
       <<"N", "°", " ", "1", "2", "3", "4", "5", " ">>,
       \* 1234
       <<"1", "2", "3", "4">>,
       \* 00045123
       <<"0", "0", "0", "4", "5", "1", "2", "3">>,
       \* 1234567890
       <<"1", "2", "3", "4", "5", "6", "7", "8", "9", "0">> >>

\* fragments of OCR text around a supplier name
SupplierTokens ==
    << \* Fornecedor: 
       <<"F", "o", "r", "n", "e", "c", "e", "d", "o", "r", ":", " ">>,
       \* Empresa: 
       <<"E", "m", "p", "r", "e", "s", "a", ":", " ">>,
       \* AB. 
       <<"A", "B", ".", " ">>,
       \* AB-
       <<"A", "B", "-">>,
       \* Comercial ABC Ltda   
       <<"C", "o", "m", "e", "r", "c", "i", "a", "l", " ", "A", "B", "C", " ", "L", "t", "d", "a", " ", " ", " ">>,
       \* Vale 123456
       <<"V", "a", "l", "e", " ", "1", "2", "3", "4", "5", "6">>,
       \* \n
       <<"\n">>,
       \* João & Cia
       <<"J", "o", "ã", "o", " ", "&", " ", "C", "i", "a">> >>

\* fragments of OCR text around a due date
DateTokens ==
    << \* Data: 01/01/2024 a 
       <<"D", "a", "t", "a", ":", " ", "0", "1", "/", "0", "1", "/", "2", "0", "2", "4", " ", "a", " ">>,
       \* Data 01/01/2024 a 
       <<"D", "a", "t", "a", " ", "0", "1", "/", "0", "1", "/", "2", "0", "2", "4", " ", "a", " ">>,
       \* Data . 1/1/2024à
       <<"D", "a", "t", "a", " ", ".", " ", "1", "/", "1", "/", "2", "0", "2", "4", "à">>,
       \* 15/02/2024
       <<"1", "5", "/", "0", "2", "/", "2", "0", "2", "4">>,
       \* 5/2/24
       <<"5", "/", "2", "/", "2", "4">>,
       \* Vencimento: 3/4/2025\n
       <<"V", "e", "n", "c", "i", "m", "e", "n", "t", "o", ":", " ", "3", "/", "4", "/", "2", "0", "2", "5", "\n">>,
       \* Venc. 30/04/2025\n
       <<"V", "e", "n", "c", ".", " ", "3", "0", "/", "0", "4", "/", "2", "0", "2", "5", "\n">>,
       \* Vencimento 3/4/2025\n
       <<"V", "e", "n", "c", "i", "m", "e", "n", "t", "o", " ", "3", "/", "4", "/", "2", "0", "2", "5", "\n">> >>

RECURSIVE Concat(_, _)
Concat(tokens, is) ==
    IF is = <<>> THEN <<>> ELSE tokens[Head(is)] \o Concat(tokens, Tail(is))

\* the texts made of at most MaxTokens fragments of one family
TextsOf(tokens) ==
    UNION {{Concat(tokens, is) : is \in [1..n -> 1..Len(tokens)]} : n \in 0..MaxTokens}

Texts == TextsOf(ValeTokens) \cup TextsOf(SupplierTokens) \cup TextsOf(DateTokens)

\* a voucher with its three fields, as the OCR engine may read it
TextoCompleto ==
    <<"F", "o", "r", "n", "e", "c", "e", "d", "o", "r", ":", " ", "C", "o", "m", "e", "r", "c", "i", "a", "l", " ", "A", "B", "C", " ", "L", "t", "d", "a", " ", " ", " ", "V", "a", "l", "e", " ", "n", "º", " ", "0", "0", "0", "4", "5", "1", "2", "3", "\n", "D", "a", "t", "a", ":", " ", "0", "1", "/", "0", "1", "/", "2", "0", "2", "4", " ", "a", " ", "1", "5", "/", "0", "2", "/", "2", "0", "2", "4">>

\* what pytesseract.image_to_string returns in the batch model
OcrTextos == {<<>>, TextoCompleto}

\* str(e) of an exception: n characters
Mensagem(n) == [i \in 1..n |-> IF i % 10 = 0 THEN "!" ELSE "e"]

ErroMensagens == {Mensagem(4), Mensagem(MaxMsgLen)}

\* minimo_digitos = st.slider(..., 5, 15, 8)
MinimoOpcoes == {5, 8, 10}

\* what an uploaded file holds: an image of h x w pixels, bytes that
\* cv2.imdecode cannot decode (it returns None), or a file whose read raises
Imagem(h, w) == [tipo |-> "imagem", h |-> h, w |-> w]

Conteudos ==
    {Imagem(600, 800), Imagem(4001, 1),
     [tipo |-> "invalido", h |-> 0, w |-> 0], [tipo |-> "ilegivel", h |-> 0, w |-> 0]}

\* arquivo.name of the k-th uploaded file
NomeArquivo(k) == <<"f", <<"1", "2", "3", "4", "5", "6">>[k]>>

\* the uploads of n files: arquivo.name and the bytes behind arquivo.read()
Uploads(n) ==
    {[k \in 1..n |-> [nome |-> NomeArquivo(k), conteudo |-> c[k]]] :
        c \in [1..n -> Conteudos]}

\* link_drive: empty, a text with no file id, a share link
Links == {<<>>, <<"d", "r", "i", "v", "e">>, <<"/", "d", "/", "a", "-", "1">>}

\* what the download of a Drive file gives: an image, a body that is no image
\* or a status other than 200 (None), an exception of requests
DriveRespostas ==
    {Imagem(600, 800), [tipo |-> "invalido", h |-> 0, w |-> 0],
     [tipo |-> "ilegivel", h |-> 0, w |-> 0]}

\* the candidate paths of setup_tesseract
CaminhosCloud == <<"/usr/bin/tesseract", "/usr/local/bin/tesseract", "/usr/bin/tesseract-ocr">>

CaminhosLocal ==
    <<"C:\\Program Files\\Tesseract-OCR\\tesseract.exe",
      "C:\\Program Files (x86)\\Tesseract-OCR\\tesseract.exe",
      "/usr/bin/tesseract", "/usr/local/bin/tesseract">>

NomeDrive == <<"i", "m", "a", "g", "e", "m", "_", "d", "r", "i", "v", "e", ".", "j", "p", "g">>

(***************************************************************************)
(* State                                                                   *)
(***************************************************************************)
VARIABLES
    pc,                 \* where the script is
    caminhos_tentar,    \* setup_tesseract: the candidate paths
    caminho_idx,        \* setup_tesseract: the candidate being probed
    tesseract_ready,    \* the module's global
    arquivos_carregados, link_drive, minimo_digitos,   \* the widgets' values
    arq_idx,            \* the file of the upload loop
    imagens_processar,  \* the queue of decoded images
    resultados,         \* the result list
    idx,                \* the image of the processing loop (from 0)
    imagem_processada,  \* preprocess_image's result for the image
    texto_ocr, numero_vale, fornecedor, vencimento,    \* locals of the try block
    erro,               \* str(e) of the exception being handled
    mensagens,          \* what st.error / st.warning have shown
    passos              \* history: the pipeline steps taken, with the OCR's answers

vars == <<pc, caminhos_tentar, caminho_idx, tesseract_ready,
          arquivos_carregados, link_drive, minimo_digitos, arq_idx,
          imagens_processar, resultados, idx, imagem_processada, texto_ocr,
          numero_vale, fornecedor, vencimento, erro, mensagens, passos>>

setupVars == <<caminhos_tentar, caminho_idx, tesseract_ready>>

inputVars == <<arquivos_carregados, link_drive, minimo_digitos>>

localVars == <<texto_ocr, numero_vale, fornecedor, vencimento, erro>>

SemImagem == [raises |-> FALSE, h |-> 0, w |-> 0]

\* a message shown to the user: its level, what it is about
Msg(nivel, sobre) == [nivel |-> nivel, sobre |-> sobre]

Passo(etapa, i, val) == [etapa |-> etapa, idx |-> i, val |-> val]

Init ==
    /\ pc = "import"
    /\ caminhos_tentar = <<>>
    /\ caminho_idx = 0
    /\ tesseract_ready = FALSE
    /\ arquivos_carregados = <<>>
    /\ link_drive = <<>>
    /\ minimo_digitos = 8
    /\ arq_idx = 0
    /\ imagens_processar = <<>>
    /\ resultados = <<>>
    /\ idx = 0
    /\ imagem_processada = SemImagem
    /\ texto_ocr = <<>>
    /\ numero_vale = NoneV
    /\ fornecedor = NoneV
    /\ vencimento = NoneV
    /\ erro = <<>>
    /\ mensagens = <<>>
    /\ passos = <<>>

(***************************************************************************)
(* setup_tesseract, run when the module is loaded                          *)
(***************************************************************************)
\* the choice of the candidate list by os.path.exists('/app')
SetupTesseract ==
    /\ pc = "import"
    /\ \E app \in BOOLEAN :
          caminhos_tentar' = IF app THEN CaminhosCloud ELSE CaminhosLocal
    /\ caminho_idx' = 1
    /\ pc' = "probe"
    /\ UNCHANGED <<tesseract_ready, inputVars, arq_idx, imagens_processar,
                   resultados, idx, imagem_processada, localVars, mensagens, passos>>

\* one turn of the loop over caminhos_tentar: the path exists or not, and
\* get_tesseract_version answers or raises (except: continue).  The function's
\* locals end with its return.  pytesseract's tesseract_cmd, which the loop
\* sets to each existing path, is the library's own setting and is not read
\* by the script.
ProbeCaminho ==
    /\ pc = "probe"
    /\ IF caminho_idx > Len(caminhos_tentar)
       THEN /\ tesseract_ready' = FALSE
            /\ pc' = "main"
            /\ caminhos_tentar' = <<>>
            /\ caminho_idx' = 0
       ELSE \E existe \in BOOLEAN, responde \in BOOLEAN :
               IF existe /\ responde
               THEN /\ tesseract_ready' = TRUE
                    /\ pc' = "main"
                    /\ caminhos_tentar' = <<>>
                    /\ caminho_idx' = 0
               ELSE /\ caminho_idx' = caminho_idx + 1
                    /\ UNCHANGED <<tesseract_ready, pc, caminhos_tentar>>
    /\ UNCHANGED <<inputVars, arq_idx, imagens_processar, resultados, idx,
                   imagem_processada, localVars, mensagens, passos>>

(***************************************************************************)
(* main                                                                    *)
(***************************************************************************)
\* main without the test of tesseract_ready
TesseractNuncaAusente == FALSE

\* if not tesseract_ready
TesseractAusente == ~tesseract_ready

\* main up to the button: it returns after the instructions when Tesseract is
\* not ready; otherwise the widgets give their values and the button is
\* pressed or not
Main ==
    /\ pc = "main"
    /\ IF TesseractAusente
       THEN /\ mensagens' = Append(mensagens, Msg("error", <<"t", "e", "s", "s", "e", "r", "a", "c", "t">>))
            /\ pc' = "refused"
            /\ UNCHANGED <<inputVars, arq_idx, imagens_processar>>
       ELSE /\ \E n \in 0..MaxFiles :
                  \E arqs \in Uploads(n), link \in Links, minimo \in MinimoOpcoes :
                     /\ arquivos_carregados' = arqs
                     /\ link_drive' = link
                     /\ minimo_digitos' = minimo
            /\ \E clicked \in BOOLEAN :
                  IF clicked
                  THEN pc' = "uploads" /\ arq_idx' = 1 /\ imagens_processar' = <<>>
                  ELSE pc' = "idle" /\ UNCHANGED <<arq_idx, imagens_processar>>
            /\ UNCHANGED mensagens
    /\ UNCHANGED <<setupVars, resultados, idx, imagem_processada, localVars, passos>>

(***************************************************************************)
(* processar_imagens: the queue                                            *)
(***************************************************************************)
\* one turn of the loop over arquivos_carregados
DecodeUpload ==
    /\ pc = "uploads"
    /\ IF arq_idx > Len(arquivos_carregados)
       THEN /\ pc' = "drive"
            /\ UNCHANGED <<arq_idx, imagens_processar, mensagens>>
       ELSE LET arquivo == arquivos_carregados[arq_idx]
            IN  /\ arq_idx' = arq_idx + 1
                /\ pc' = pc
                /\ CASE arquivo.conteudo.tipo = "ilegivel" ->
                          \* except Exception: st.error
                          /\ mensagens' = Append(mensagens, Msg("error", arquivo.nome))
                          /\ UNCHANGED imagens_processar
                     [] arquivo.conteudo.tipo = "invalido" ->
                          \* imagem is None: nothing is queued and nothing is shown
                          UNCHANGED <<imagens_processar, mensagens>>
                     [] OTHER ->
                          /\ imagens_processar' =
                                Append(imagens_processar,
                                       [nome |-> arquivo.nome,
                                        imagem |-> [h |-> arquivo.conteudo.h,
                                                    w |-> arquivo.conteudo.w],
                                        tipo |-> "upload"])
                          /\ UNCHANGED mensagens
    /\ UNCHANGED <<setupVars, inputVars, resultados, idx, imagem_processada, localVars, passos>>

\* if link_drive: get_drive_file_id, download_from_drive
DriveLink ==
    /\ pc = "drive"
    /\ pc' = "check"
    /\ IF link_drive # <<>> /\ Truthy(get_drive_file_id(link_drive))
       THEN \E resp \in DriveRespostas :
               CASE resp.tipo = "ilegivel" ->
                      \* download_from_drive: except Exception: st.error
                      /\ mensagens' = Append(mensagens, Msg("error", NomeDrive))
                      /\ UNCHANGED imagens_processar
                 [] resp.tipo = "invalido" ->
                      UNCHANGED <<imagens_processar, mensagens>>
                 [] OTHER ->
                      /\ imagens_processar' =
                            Append(imagens_processar,
                                   [nome |-> NomeDrive,
                                    imagem |-> [h |-> resp.h, w |-> resp.w],
                                    tipo |-> "drive"])
                      /\ UNCHANGED mensagens
       ELSE UNCHANGED <<imagens_processar, mensagens>>
    /\ UNCHANGED <<setupVars, inputVars, arq_idx, resultados, idx, imagem_processada,
                   localVars, passos>>

\* if not imagens_processar: warning, return; else the loop starts
CheckQueue ==
    /\ pc = "check"
    /\ IF imagens_processar = <<>>
       THEN /\ mensagens' = Append(mensagens, Msg("warning", <<"n", "e", "n", "h", "u", "m", "a">>))
            /\ pc' = "done"
            /\ UNCHANGED <<resultados, idx>>
       ELSE /\ resultados' = <<>>
            /\ idx' = 0
            /\ pc' = "preprocess"
            /\ UNCHANGED mensagens
    /\ UNCHANGED <<setupVars, inputVars, arq_idx, imagens_processar, imagem_processada,
                   localVars, passos>>

(***************************************************************************)
(* processar_imagens: the loop over the queue                              *)
(***************************************************************************)
\* the loop taking the queue from its end
dados_imagem_do_fim == imagens_processar[Len(imagens_processar) - idx]

\* for idx, dados_imagem in enumerate(imagens_processar)
dados_imagem == imagens_processar[idx + 1]

\* the end of one turn of the loop: the next image, or the consolidated report
ProximaImagem ==
    IF idx + 1 < Len(imagens_processar)
    THEN idx' = idx + 1 /\ pc' = "preprocess"
    ELSE pc' = "report" /\ UNCHANGED idx

\* imagem_processada = preprocess_image(imagem), outside the try block: what it
\* raises leaves processar_imagens and main
Preprocess ==
    /\ pc = "preprocess"
    /\ imagem_processada' = preprocess_image(dados_imagem.imagem)
    /\ pc' = IF preprocess_image(dados_imagem.imagem).raises THEN "aborted" ELSE "ocr"
    /\ passos' = Append(passos, Passo("normalize", idx, <<>>))
    /\ UNCHANGED <<setupVars, inputVars, arq_idx, imagens_processar, resultados, idx,
                   localVars, mensagens>>

\* texto_ocr = pytesseract.image_to_string(...)
Recognize ==
    /\ pc = "ocr"
    /\ \E texto \in OcrTextos :
          /\ texto_ocr' = texto
          /\ passos' = Append(passos, Passo("recognize", idx, texto))
    /\ pc' = "extract"
    /\ UNCHANGED <<setupVars, inputVars, arq_idx, imagens_processar, resultados, idx,
                   imagem_processada, numero_vale, fornecedor, vencimento, erro, mensagens>>

\* pytesseract.image_to_string raises: except Exception as e
RecognizeRaises ==
    /\ pc = "ocr"
    /\ \E msg \in ErroMensagens :
          /\ erro' = msg
          /\ passos' = Append(passos, Passo("raise", idx, msg))
    /\ pc' = "except"
    /\ UNCHANGED <<setupVars, inputVars, arq_idx, imagens_processar, resultados, idx,
                   imagem_processada, texto_ocr, numero_vale, fornecedor, vencimento,
                   mensagens>>

\* the three extractors on texto_ocr
ExtractFields ==
    /\ pc = "extract"
    /\ numero_vale' = extract_vale_number(texto_ocr)
    /\ fornecedor' = extract_supplier(texto_ocr)
    /\ vencimento' = extract_due_date(texto_ocr)
    /\ pc' = "filter"
    /\ passos' = Append(passos, Passo("extract", idx, <<>>))
    /\ UNCHANGED <<setupVars, inputVars, arq_idx, imagens_processar, resultados, idx,
                   imagem_processada, texto_ocr, erro, mensagens>>

\* the minimum-digits filter
FilterDigits ==
    /\ pc = "filter"
    /\ numero_vale' = MinDigitsFilter(numero_vale, minimo_digitos)
    /\ pc' = "append"
    /\ UNCHANGED <<setupVars, inputVars, arq_idx, imagens_processar, resultados, idx,
                   imagem_processada, texto_ocr, fornecedor, vencimento, erro, mensagens,
                   passos>>

\* resultados.append({...}) at the end of the try block
AppendRecord ==
    /\ pc = "append"
    /\ resultados' = Append(resultados,
                            SuccessRecord(dados_imagem, numero_vale, fornecedor, vencimento))
    /\ passos' = Append(passos, Passo("record", idx, <<>>))
    /\ ProximaImagem
    /\ UNCHANGED <<setupVars, inputVars, arq_idx, imagens_processar, imagem_processada,
                   localVars, mensagens>>

\* the except block: st.error, resultados.append({... 'ERRO' ...})
AppendError ==
    /\ pc = "except"
    /\ mensagens' = Append(mensagens, Msg("error", dados_imagem.nome))
    /\ resultados' = Append(resultados, ErrorRecord(dados_imagem, erro))
    /\ passos' = Append(passos, Passo("record", idx, <<>>))
    /\ ProximaImagem
    /\ UNCHANGED <<setupVars, inputVars, arq_idx, imagens_processar, imagem_processada,
                   localVars>>

\* after the loop: the consolidated table and the exports read resultados
Report ==
    /\ pc = "report"
    /\ pc' = "done"
    /\ UNCHANGED <<setupVars, inputVars, arq_idx, imagens_processar, resultados, idx,
                   imagem_processada, localVars, mensagens, passos>>

Next ==
    \/ SetupTesseract
    \/ ProbeCaminho
    \/ Main
    \/ DecodeUpload
    \/ DriveLink
    \/ CheckQueue
    \/ Preprocess
    \/ Recognize
    \/ RecognizeRaises
    \/ ExtractFields
    \/ FilterDigits
    \/ AppendRecord
    \/ AppendError
    \/ Report

\* one run of the script, from the module's load
Spec == Init /\ [][Next]_vars

(***************************************************************************)
(* The try block of one image on every text of Texts: the script has       *)
(* queued one uploaded image and the OCR engine has answered               *)
(***************************************************************************)
InitExtract ==
    /\ pc = "extract"
    /\ caminhos_tentar = <<>>
    /\ caminho_idx = 0
    /\ tesseract_ready = TRUE
    /\ arquivos_carregados \in Uploads(1)
    /\ arquivos_carregados[1].conteudo = Imagem(600, 800)
    /\ link_drive = <<>>
    /\ minimo_digitos \in MinimoOpcoes
    /\ arq_idx = 2
    /\ imagens_processar = <<[nome |-> NomeArquivo(1), imagem |-> [h |-> 600, w |-> 800],
                              tipo |-> "upload"]>>
    /\ resultados = <<>>
    /\ idx = 0
    /\ imagem_processada = preprocess_image([h |-> 600, w |-> 800])
    /\ texto_ocr \in Texts
    /\ numero_vale = NoneV
    /\ fornecedor = NoneV
    /\ vencimento = NoneV
    /\ erro = <<>>
    /\ mensagens = <<>>
    /\ passos = <<Passo("normalize", 0, <<>>), Passo("recognize", 0, texto_ocr)>>

NextExtract ==
    \/ ExtractFields
    \/ FilterDigits
    \/ AppendRecord

SpecExtract == InitExtract /\ [][NextExtract]_vars

(***************************************************************************)
(* preprocess_image alone, on every image of up to MaxAltura x MaxLargura  *)
(* pixels: the script has queued the one image                             *)
(***************************************************************************)
InitNorm ==
    /\ pc = "preprocess"
    /\ caminhos_tentar = <<>>
    /\ caminho_idx = 0
    /\ tesseract_ready = TRUE
    /\ arquivos_carregados = <<>>
    /\ link_drive = <<"/", "d", "/", "a", "-", "1">>
    /\ minimo_digitos = 8
    /\ arq_idx = 1
    /\ \E h \in 1..MaxAltura, w \in 1..MaxLargura :
          imagens_processar = <<[nome |-> NomeDrive, imagem |-> [h |-> h, w |-> w],
                                 tipo |-> "drive"]>>
    /\ resultados = <<>>
    /\ idx = 0
    /\ imagem_processada = SemImagem
    /\ texto_ocr = <<>>
    /\ numero_vale = NoneV
    /\ fornecedor = NoneV
    /\ vencimento = NoneV
    /\ erro = <<>>
    /\ mensagens = <<>>
    /\ passos = <<>>

NextNorm == Preprocess

SpecNorm == InitNorm /\ [][NextNorm]_vars


(***************************************************************************)
(* Properties                                                              *)
(***************************************************************************)
LoopPcs == {"preprocess", "ocr", "extract", "filter", "append", "except"}

IsDigits(str) == \A i \in 1..Len(str) : str[i] \in Digits

\* the step of passos in which the OCR engine answered, or raised, for the
\* image of position i of the queue
Saida(i) ==
    LET ks == {k \in 1..Len(passos) :
                  passos[k].idx = i - 1 /\ passos[k].etapa \in {"recognize", "raise"}}
    IN  passos[CHOOSE k \in ks : TRUE]

\* the three fields the extractors give for each text the OCR engine may return
Extraido ==
    [texto \in OcrTextos |->
        [numero_vale |-> extract_vale_number(texto),
         fornecedor |-> extract_supplier(texto),
         vencimento |-> extract_due_date(texto)]]

\* C1: when processar_imagens finishes a batch the result list holds exactly
\* one Record for every queued image, whichever stage fails for any image,
\* and the batch is never aborted part-way.
C1_OneRecordPerQueuedImage ==
    /\ pc # "aborted"
    /\ pc \in {"report", "done"} =>
          /\ Len(resultados) = Len(imagens_processar)
          /\ \A i \in 1..Len(resultados) :
                resultados[i].Arquivo = imagens_processar[i].nome

\* C2: an image whose OCR raised has the Record with 'ERRO' as voucher and
\* 'Erro: ' followed by at most the first 50 characters of the message as
\* supplier; the loop goes on to the next image; the Record of every image
\* depends on that image's own OCR answer alone.
C2_ErrorRecordIsolated ==
    /\ \A i \in 1..Len(resultados) :
          LET img == imagens_processar[i]
              out == Saida(i)
          IN  IF out.etapa = "raise"
              THEN /\ resultados[i].Arquivo = img.nome
                   /\ resultados[i].NumeroVale = <<"E", "R", "R", "O">>
                   /\ resultados[i].Fornecedor =
                         <<"E", "r", "r", "o", ":", " ">>
                            \o SubSeq(out.val, 1, IF Len(out.val) < 50 THEN Len(out.val) ELSE 50)
              ELSE resultados[i] =
                      SuccessRecord(img,
                                    MinDigitsFilter(Extraido[out.val].numero_vale,
                                                    minimo_digitos),
                                    Extraido[out.val].fornecedor,
                                    Extraido[out.val].vencimento)
    /\ pc \in LoopPcs => idx = Len(resultados) /\ idx < Len(imagens_processar)
    /\ pc = "report" => Len(resultados) = Len(imagens_processar)

\* C2 witness: the OCR of the first image raised with a message of more than 50
\* characters, and the second image has its voucher number
C2_Witness ==
    /\ Len(resultados) >= 2
    /\ Saida(1).etapa = "raise"
    /\ Len(Saida(1).val) > 50
    /\ Len(resultados[1].Fornecedor) = 56
    /\ resultados[2].NumeroVale = <<"0", "0", "0", "4", "5", "1", "2", "3">>

\* C3: every uploaded file that cannot be decoded is left out of the result
\* list and is reported with a warning or error message.
C3_DecodeFailureReported ==
    pc \in {"report", "done"} =>
       \A k \in 1..Len(arquivos_carregados) :
          arquivos_carregados[k].conteudo.tipo # "imagem" =>
             /\ \A i \in 1..Len(resultados) :
                   resultados[i].Arquivo # arquivos_carregados[k].nome
             /\ \E m \in 1..Len(mensagens) :
                   mensagens[m].sobre \in {arquivos_carregados[k].nome, <<"n", "e", "n", "h", "u", "m", "a">>}

\* the position of a queued upload in arquivos_carregados
PosicaoUpload(nome) ==
    CHOOSE k \in 1..Len(arquivos_carregados) : arquivos_carregados[k].nome = nome

C4_State ==
    /\ pc \in LoopPcs => Len(resultados) = idx
    /\ \A i \in 1..Len(resultados) :
          /\ resultados[i].Arquivo = imagens_processar[i].nome
          /\ resultados[i].Origem = imagens_processar[i].tipo
    /\ \A i \in 1..Len(imagens_processar), j \in 1..Len(imagens_processar) :
          i < j =>
             /\ imagens_processar[i].tipo = "upload"
             /\ imagens_processar[j].tipo = "upload" =>
                   PosicaoUpload(imagens_processar[i].nome)
                      < PosicaoUpload(imagens_processar[j].nome)
    /\ \A a \in 1..Len(passos), b \in 1..Len(passos) :
          a < b =>
             /\ passos[a].idx <= passos[b].idx
             /\ passos[a].idx < passos[b].idx =>
                   \E c \in a..(b - 1) :
                      passos[c].etapa = "record" /\ passos[c].idx = passos[a].idx

C4_Step ==
    /\ Len(resultados') >= Len(resultados)
    /\ SubSeq(resultados', 1, Len(resultados)) = resultados
    /\ Len(resultados') <= Len(resultados) + 1

\* C4: the images are processed one at a time in queue order (uploads in upload
\* order, then the Drive image): the Record of an image is appended before any
\* step of the next image, the result list is only appended to, and it is in
\* the order of the queue.
C4_SequentialInOrder == [](C4_State) /\ [][C4_Step]_vars

\* C4 witness: two uploads and the Drive image were processed in this order
C4_Witness ==
    /\ pc = "report"
    /\ Len(resultados) = 3
    /\ resultados[1].Arquivo = NomeArquivo(1)
    /\ resultados[2].Arquivo = NomeArquivo(2)
    /\ resultados[3].Origem = "drive"

\* C5: extract_vale_number returns None or at least 5 digit characters, and the
\* voucher field of every Record is 'Não encontrado', 'ERRO' or digit
\* characters, at least 5 and at least the configured minimum; a candidate
\* shorter than the minimum is reported as 'Não encontrado'.
C5_VoucherField ==
    /\ pc = "filter" =>
          \/ numero_vale.isNone
          \/ IsDigits(numero_vale.val) /\ Len(numero_vale.val) >= 5
    /\ pc = "append" =>
          \/ numero_vale.isNone
          \/ Len(numero_vale.val) >= 5 /\ Len(numero_vale.val) >= minimo_digitos
    /\ \A i \in 1..Len(resultados) :
          /\ \/ resultados[i].NumeroVale \in {<<"N", "ã", "o", " ", "e", "n", "c", "o", "n", "t", "r", "a", "d", "o">>, <<"E", "R", "R", "O">>}
             \/ /\ IsDigits(resultados[i].NumeroVale)
                /\ Len(resultados[i].NumeroVale) >= 5
                /\ Len(resultados[i].NumeroVale) >= minimo_digitos
          /\ LET candidato == extract_vale_number(texto_ocr)
             IN  IF candidato.isNone \/ Len(candidato.val) < minimo_digitos
                 THEN resultados[i].NumeroVale = <<"N", "ã", "o", " ", "e", "n", "c", "o", "n", "t", "r", "a", "d", "o">>
                 ELSE resultados[i].NumeroVale = candidato.val

\* C5 witness: a candidate of 8 digits with a minimum of 10 digits
C5_Witness ==
    /\ Len(resultados) = 1
    /\ minimo_digitos = 10
    /\ extract_vale_number(texto_ocr) = Some(<<"0", "0", "0", "4", "5", "1", "2", "3">>)
    /\ resultados[1].NumeroVale = <<"N", "ã", "o", " ", "e", "n", "c", "o", "n", "t", "r", "a", "d", "o">>

\* C6: in every Record the voucher, supplier and due-date fields are non-empty
\* strings.
C6_FieldsNonEmpty ==
    \A i \in 1..Len(resultados) :
       /\ resultados[i].NumeroVale # <<>>
       /\ resultados[i].Fornecedor # <<>>
       /\ resultados[i].Vencimento # <<>>

\* C7: when setup_tesseract has returned False, main shows the instructions
\* and nothing of processar_imagens runs: no image is queued, normalized,
\* recognized or recorded.
C7_NoExtractionWithoutTesseract ==
    /\ pc = "probe" => ~tesseract_ready
    /\ (pc \notin {"import", "probe"} /\ ~tesseract_ready) =>
          /\ pc \in {"main", "refused"}
          /\ imagens_processar = <<>>
          /\ resultados = <<>>
          /\ passos = <<>>
          /\ pc = "refused" => mensagens = <<Msg("error", <<"t", "e", "s", "s", "e", "r", "a", "c", "t">>)>>
          /\ pc = "main" => mensagens = <<>>

\* C7 witness: main has returned after the instructions
C7_Witness == pc = "refused" /\ ~tesseract_ready /\ Len(mensagens) = 1


\* 'Data <date> a|à|A <date>' with or without a '.' or ':' after 'Data'
IntervaloSemSeparador ==
    Cat(<<Lit(<<"D", "a", "t", "a">>), Star(Set(Ws)), Opt(Set({".", ":"})), Star(Set(Ws)), DateRe,
          Star(Set(Ws)), Set({"a", "A", "à"}), Star(Set(Ws)), Grp(DateRe)>>)

\* a date directly after 'Vencimento' or 'Venc.'
VencimentoDireto ==
    Cat(<<Lit(<<"V", "e", "n", "c">>), Alt(<<Lit(<<"i", "m", "e", "n", "t", "o">>), Lit(<<".">>)>>), Star(Set(Ws)), Grp(DateRe)>>)

\* C8 as worded: the second date of a 'Data <date> a|à|A <date>' range whenever
\* the text holds one; otherwise the date directly after 'Vencimento' or
\* 'Venc.'; otherwise None.
C8_AsWorded ==
    pc = "filter" =>
       LET intervalo == Search(IntervaloSemSeparador, texto_ocr)
           direto == Search(VencimentoDireto, texto_ocr)
       IN  vencimento = IF intervalo.found THEN Some(intervalo.g1)
                        ELSE IF direto.found THEN Some(direto.g1)
                        ELSE NoneV

\* 'Data' '.'|':' <date> a|à|A <date>
IntervaloComSeparador ==
    Cat(<<Lit(<<"D", "a", "t", "a">>), Star(Set(Ws)), Set({".", ":"}), Star(Set(Ws)), DateRe,
          Star(Set(Ws)), Set({"a", "A", "à"}), Star(Set(Ws)), Grp(DateRe)>>)

\* 'Vencimento' '.'|':' <date>
VencimentoComSeparador ==
    Cat(<<Lit(<<"V", "e", "n", "c", "i", "m", "e", "n", "t", "o">>), Star(Set(Ws)), Set({".", ":"}), Star(Set(Ws)), Grp(DateRe)>>)

\* 'Venc' or 'Venc.' '.'|':' <date>
VencComSeparador ==
    Cat(<<Lit(<<"V", "e", "n", "c">>), Opt(Set({"."})), Star(Set(Ws)), Set({".", ":"}), Star(Set(Ws)),
          Grp(DateRe)>>)

\* C8: extract_due_date returns the second date of the first range
\* 'Data' '.'|':' <date> a|à|A <date> whenever the text holds one, also when it
\* holds a 'Vencimento'/'Venc.' date; only without a range the date after the
\* first 'Vencimento' '.'|':', else after the first 'Venc'/'Venc.' '.'|':';
\* None when none of them is in the text.
C8_RangeBeforeFallback ==
    pc = "filter" =>
       LET intervalo == Search(IntervaloComSeparador, texto_ocr)
           vencto == Search(VencimentoComSeparador, texto_ocr)
           venc == Search(VencComSeparador, texto_ocr)
       IN  vencimento = IF intervalo.found THEN Some(intervalo.g1)
                        ELSE IF vencto.found THEN Some(vencto.g1)
                        ELSE IF venc.found THEN Some(venc.g1)
                        ELSE NoneV

\* C8 witness: the text holds a 'Vencimento:' date and then a range, and the
\* second date of the range is returned
C8_Witness ==
    /\ pc = "filter"
    /\ Search(VencimentoComSeparador, texto_ocr).found
    /\ Search(IntervaloComSeparador, texto_ocr).found
    /\ Search(VencimentoComSeparador, texto_ocr).start
          < Search(IntervaloComSeparador, texto_ocr).start
    /\ vencimento = Some(<<"1", "5", "/", "0", "2", "/", "2", "0", "2", "4">>)

\* re.search of every pattern of padroes in texto
Achados(padroes, texto) == [k \in 1..Len(padroes) |-> Search(padroes[k], texto)]

\* the first of the matches ms that satisfies Aceito, 0 when none
Primeiro(ms, Aceito(_)) ==
    LET ks == {k \in 1..Len(ms) : ms[k].found /\ Aceito(ms[k])}
    IN  IF ks = {} THEN 0 ELSE CHOOSE k \in ks : \A j \in ks : k <= j

Qualquer(match) == TRUE

MaisDeTres(match) == Len(SupplierClean(match.g1)) > 3

\* the number of patterns consulted when pattern k (0: none) decides
Consultados(padroes, texto, k) ==
    IF texto = <<>> THEN 0 ELSE IF k = 0 THEN Len(padroes) ELSE k

C9_ValeEDataPrimeiroPadrao ==
    LET mv == Achados(ValePadroes, texto_ocr)
        md == Achados(DuePadroes, texto_ocr)
        kv == Primeiro(mv, Qualquer)
        kd == Primeiro(md, Qualquer)
    IN  /\ extract_vale_number_run(texto_ocr).tried = Consultados(ValePadroes, texto_ocr, kv)
        /\ numero_vale = IF kv = 0 THEN NoneV ELSE Some(OnlyDigits(mv[kv].g1))
        /\ extract_due_date_run(texto_ocr).tried = Consultados(DuePadroes, texto_ocr, kd)
        /\ vencimento = IF kd = 0 THEN NoneV ELSE Some(md[kd].g1)

\* C9 as worded: in each of the three extractors the first pattern that matches
\* decides the result, whatever the post-processing does to the match: the
\* supplier is the cleaned match of the first pattern found, or None when that
\* match keeps at most 3 characters.
C9_AsWorded ==
    pc = "filter" =>
       /\ C9_ValeEDataPrimeiroPadrao
       /\ LET mf == Achados(SupplierPadroes, texto_ocr)
              kf == Primeiro(mf, Qualquer)
          IN  fornecedor = IF kf # 0 /\ MaisDeTres(mf[kf])
                           THEN Some(SupplierClean(mf[kf].g1)) ELSE NoneV

\* C9: in extract_vale_number and extract_due_date the first pattern that
\* matches decides the result and no later pattern is consulted; in
\* extract_supplier a match that keeps at most 3 characters is discarded and
\* the next pattern is consulted, so the first pattern whose match keeps more
\* than 3 characters decides.
C9_FirstAcceptedPattern ==
    pc = "filter" =>
       /\ C9_ValeEDataPrimeiroPadrao
       /\ LET mf == Achados(SupplierPadroes, texto_ocr)
              kf == Primeiro(mf, MaisDeTres)
          IN  /\ extract_supplier_run(texto_ocr).tried
                    = Consultados(SupplierPadroes, texto_ocr, kf)
              /\ fornecedor = IF kf = 0 THEN NoneV ELSE Some(SupplierClean(mf[kf].g1))

\* C9 witness: the first supplier pattern matches, its match is discarded and
\* the second pattern gives the supplier
C9_Witness ==
    /\ pc = "filter"
    /\ Search(SupplierPadroes[1], texto_ocr).found
    /\ extract_supplier_run(texto_ocr).tried = 2
    /\ ~fornecedor.isNone

\* round(n / d) as Python rounds: to the nearest integer, a half to the even one
Round(n, d) ==
    LET q == n \div d
        r == n % d
    IN  IF 2 * r < d THEN q
        ELSE IF 2 * r > d THEN q + 1
        ELSE IF q % 2 = 0 THEN q ELSE q + 1

\* C10: for every image of height h >= 1 and width w >= 1 preprocess_image
\* does not raise and gives height 2000 and width round(w * 2000 / h) when
\* h > 2000, and the height and width of the input otherwise.
C10_NormalizedShape ==
    pc # "preprocess" =>
       LET img == imagens_processar[1].imagem
       IN  /\ pc # "aborted"
           /\ ~imagem_processada.raises
           /\ imagem_processada.h <= 2000
           /\ img.h > 2000 =>
                 /\ imagem_processada.h = 2000
                 /\ imagem_processada.w = Round(img.w * 2000, img.h)
           /\ img.h <= 2000 =>
                 /\ imagem_processada.h = img.h
                 /\ imagem_processada.w = img.w

=============================================================================
